---- MODULE Spec2Model ----
(***************************************************************************)
(* EpiTator: the structured incident annotator (table interpreter and      *)
(* incident synthesizer) and the GeoNames sqlite importer.                 *)
(*                                                                         *)
(* Text is modelled as a sequence of one-character strings, so that the    *)
(* substring tests, lower(), strip() and split(',') of the code are        *)
(* computed rather than assumed.                                           *)
(***************************************************************************)
EXTENDS Integers, Sequences, FiniteSets, Bags, TLC

VARIABLES
    \* ---- StructuredIncidentAnnotator.annotate, second half (lines 187-281)
    tables,                  \* the typed tables built by the first half
    table_idx,               \* position of `for table in tables`
    row_idx,                 \* position of `for row_idx, row in enumerate(...)`
    row_incident_date,
    row_incident_location,
    row_incident_base_type,
    row_incident_status,
    row_incidents,           \* drafts of the current row
    max_new_cases,
    max_new_deaths,
    incidents,               \* the structured_incidents tier being built
    \* ---- annotate, number candidates (lines 60-87)
    spacy_tokens,            \* the tokens of the document
    spacy_nes,               \* the named-entity mentions of the document
    ne_idx,                  \* position of `for ne_span in spacy_nes`
    numbers,                 \* the number candidates collected so far
    \* ---- annotate, table interpretation (lines 102-185)
    rows,                    \* span.metadata['data'] of the table span
    has_header,
    column_types,
    parsed_column_entities,
    items_order,             \* what the run has shown of the order in which
                             \* entities_by_type.items() yields the types
    first_run,               \* the table an earlier run built from `rows`
    \* ---- create_sqlite_db (sqlite_import_geonames.py)
    db_file,                 \* the database at ANNIE_DB_PATH, as committed
    connection,              \* the database as the open connection sees it
    geonames_csv,            \* the last rows of allCountries.txt
    ordinary_rows,           \* how many ordinary rows precede them in the file
    batch_yielded,           \* `batch` of line 95: what batched yielded last
    i_count,                 \* the import's row counter `i`
    \* ---- position inside the function being run
    pc

synthVars == <<tables, table_idx, row_idx, row_incident_date,
               row_incident_location, row_incident_base_type,
               row_incident_status, row_incidents, max_new_cases,
               max_new_deaths, incidents>>

numVars == <<spacy_tokens, spacy_nes, ne_idx, numbers>>

interpVars == <<rows, has_header, column_types, parsed_column_entities,
                items_order, first_run>>

importVars == <<db_file, connection, geonames_csv, ordinary_rows,
                batch_yielded, i_count>>

vars == <<synthVars, numVars, interpVars, importVars, pc>>

-----------------------------------------------------------------------------
(* Python text primitives                                                  *)

\* The upper-case letters that occur in the texts of the model.
UpperToLower ==
    [c \in {"A", "C", "D", "N", "S", "T"} |->
        CASE c = "A" -> "a" [] c = "C" -> "c" [] c = "D" -> "d"
          [] c = "N" -> "n" [] c = "S" -> "s" [] c = "T" -> "t"]

\* str.lower()
Lower(s) ==
    [i \in 1..Len(s) |->
        IF s[i] \in DOMAIN UpperToLower THEN UpperToLower[s[i]] ELSE s[i]]

\* `sub in s` for Python strings
Contains(sub, s) ==
    \E i \in 1..(Len(s) - Len(sub) + 1) : SubSeq(s, i, i + Len(sub) - 1) = sub

Digits == {"0", "1", "2", "3", "4", "5", "6", "7", "8", "9"}

DigitValue(c) ==
    CASE c = "0" -> 0 [] c = "1" -> 1 [] c = "2" -> 2 [] c = "3" -> 3
      [] c = "4" -> 4 [] c = "5" -> 5 [] c = "6" -> 6 [] c = "7" -> 7
      [] c = "8" -> 8 [] c = "9" -> 9

\* None, as returned by parse_spelled_number for text that is no number.
NoNumber == -1

\* utils.parse_spelled_number: the value of a text made of digits (digit
\* groups may be separated by single blanks, as in "1 303 173"), None for
\* any other text.
RECURSIVE DigitsValue(_, _)
DigitsValue(s, acc) ==
    IF s = <<>> THEN acc
    ELSE IF Head(s) = " " THEN DigitsValue(Tail(s), acc)
    ELSE DigitsValue(Tail(s), 10 * acc + DigitValue(Head(s)))

parse_spelled_number(s) ==
    IF /\ s # <<>>
       /\ \A i \in 1..Len(s) : s[i] \in Digits \cup {" "}
       /\ s[1] # " " /\ s[Len(s)] # " "
       /\ \A i \in 1..(Len(s) - 1) : ~(s[i] = " " /\ s[i + 1] = " ")
    THEN DigitsValue(s, 0)
    ELSE NoNumber

-----------------------------------------------------------------------------
(* Texts used by the code and by the inputs                                *)

STR_empty == <<>>
STR_case == <<"c", "a", "s", "e">>
STR_death == <<"d", "e", "a", "t", "h">>
STR_cases == <<"c", "a", "s", "e", "s">>
STR_deaths == <<"d", "e", "a", "t", "h", "s">>
STR_suspect == <<"s", "u", "s", "p", "e", "c", "t">>
STR_suspected == <<"s", "u", "s", "p", "e", "c", "t", "e", "d">>
STR_confirmed == <<"c", "o", "n", "f", "i", "r", "m", "e", "d">>
STR_total == <<"t", "o", "t", "a", "l">>
STR_new == <<"n", "e", "w">>

\* Header cells of the test tables (test_count_table, test_date_count_table,
\* test_multi_section_table) and combinations of their words.
HDR_Type == <<"T", "y", "p", "e">>
HDR_New == <<"N", "e", "w">>
HDR_Total == <<"T", "o", "t", "a", "l">>
HDR_Confirmed == <<"C", "o", "n", "f", "i", "r", "m", "e", "d">>
HDR_NewDeaths == <<"N", "e", "w", " ", "d", "e", "a", "t", "h", "s">>
HDR_TotalNewCases ==
    <<"T", "o", "t", "a", "l", " ", "n", "e", "w", " ", "c", "a", "s", "e", "s">>

TXT_Cases == <<"C", "a", "s", "e", "s">>
TXT_Deaths == <<"D", "e", "a", "t", "h", "s">>

-----------------------------------------------------------------------------
(* Cell values of a typed table (lines 138-140, 152)                       *)

\* None: the cell holds no entity of the column's type.
NoneV == [kind |-> "None", text |-> <<>>]
\* []: the filler of a column that was typed "text" (line 152).
EmptyListV == [kind |-> "EmptyList", text |-> <<>>]
\* SpanGroup(contained_spans): the entity found in the cell.
SpanGroupV(t) == [kind |-> "SpanGroup", text |-> t]

\* Python truth value of a cell value, `if not value: continue`.
Truthy(value) == value.kind = "SpanGroup"

None == "None"

-----------------------------------------------------------------------------
(* Number candidates: is_valid_number and annotate, lines 18-25 and 60-76  *)

Whitespace == {" ", "\t", "\n"}

\* The alternatives of the regular expression of line 68.
SeparatorWords == {<<"t", "o">>, <<"a", "n", "d">>, <<"o", "r">>}

\* Lines 22-25. The caller makes sure num_string is not empty: num_string[0]
\* raises IndexError on an empty string.
is_valid_number_parse_only(num_string) ==
    parse_spelled_number(num_string) # NoNumber

is_valid_number(num_string) ==
    IF num_string[1] = "0" /\ Len(num_string) > 1 THEN FALSE
    ELSE parse_spelled_number(num_string) # NoNumber

\* The match of \s(?:to|and|or)\s that starts at character p of s: the
\* position of its last character, 0 when there is none.
JoinerEnd(s, p) ==
    LET ws == {w \in SeparatorWords :
                  /\ p + Len(w) + 1 <= Len(s)
                  /\ SubSeq(s, p + 1, p + Len(w)) = w
                  /\ s[p + Len(w) + 1] \in Whitespace}
    IN IF s[p] \in Whitespace /\ ws # {}
       THEN p + Len(CHOOSE w \in ws : TRUE) + 1
       ELSE 0

\* Lines 67-69: [m.span() for m in re.finditer(...)], the matches from left
\* to right without overlap, as (start, end) offsets into the text.
RECURSIVE joiner_offsets_from(_, _)
joiner_offsets_from(s, p) ==
    IF p > Len(s) THEN <<>>
    ELSE IF JoinerEnd(s, p) # 0
         THEN <<<<p - 1, JoinerEnd(s, p)>>>>
                  \o joiner_offsets_from(s, JoinerEnd(s, p) + 1)
         ELSE joiner_offsets_from(s, p + 1)

joiner_offsets(s) == joiner_offsets_from(s, 1)

\* AnnoSpan(start, end, doc) inside the mention ne_span, with its text.
SubSpan(ne_span, start, end) ==
    [start |-> start, end |-> end,
     text |-> SubSeq(ne_span.text, start - ne_span.start + 1, end - ne_span.start)]

\* SpanGroup([span], 'count')
CountGroup(span) ==
    [start |-> span.start, end |-> span.end, text |-> span.text, label |-> "count"]

\* Lines 71-72
range_start(ne_span) ==
    SubSpan(ne_span, ne_span.start,
            ne_span.start + joiner_offsets(ne_span.text)[1][1])
range_end(ne_span) ==
    SubSpan(ne_span, ne_span.start + joiner_offsets(ne_span.text)[1][2],
            ne_span.end)

\* Lines 63-76: the candidates one mention adds.
CandidatesBothOrNone(ne_span) ==
    IF ne_span.label \notin {"QUANTITY", "CARDINAL"} THEN <<>>
    ELSE IF is_valid_number(ne_span.text) THEN <<CountGroup(ne_span)>>
    ELSE IF Len(joiner_offsets(ne_span.text)) = 1
         THEN IF /\ is_valid_number(range_start(ne_span).text)
                 /\ is_valid_number(range_end(ne_span).text)
              THEN <<CountGroup(range_start(ne_span)),
                     CountGroup(range_end(ne_span))>>
              ELSE <<>>
         ELSE <<>>

Candidates(ne_span) ==
    IF ne_span.label \notin {"QUANTITY", "CARDINAL"} THEN <<>>
    ELSE IF is_valid_number(ne_span.text) THEN <<CountGroup(ne_span)>>
    ELSE IF Len(joiner_offsets(ne_span.text)) = 1
         THEN (IF is_valid_number(range_start(ne_span).text)
               THEN <<CountGroup(range_start(ne_span))>> ELSE <<>>)
              \o (IF is_valid_number(range_end(ne_span).text)
                  THEN <<CountGroup(range_end(ne_span))>> ELSE <<>>)
         ELSE <<>>

\* is_valid_number is handed an empty text: IndexError at line 22.
RaisesIndexError(ne_span) ==
    /\ ne_span.label \in {"QUANTITY", "CARDINAL"}
    /\ \/ ne_span.text = <<>>
       \/ /\ ~is_valid_number(ne_span.text)
          /\ Len(joiner_offsets(ne_span.text)) = 1
          /\ \/ range_start(ne_span).text = <<>>
             \/ range_end(ne_span).text = <<>>

\* Lines 62-76, one turn of the loop.
ScanEntity ==
    /\ pc = "nes"
    /\ ne_idx < Len(spacy_nes)
    /\ ne_idx' = ne_idx + 1
    /\ IF RaisesIndexError(spacy_nes[ne_idx + 1])
       THEN pc' = "IndexError" /\ numbers' = numbers
       ELSE pc' = "nes" /\ numbers' = numbers \o Candidates(spacy_nes[ne_idx + 1])
    /\ UNCHANGED <<spacy_tokens, spacy_nes, synthVars, interpVars, importVars>>

\* Line 77: the loop over the mentions is over.
EntitiesScanned ==
    /\ pc = "nes"
    /\ ne_idx = Len(spacy_nes)
    /\ pc' = "tokens"
    /\ UNCHANGED <<numVars, synthVars, interpVars, importVars>>

\* The digits a token of the fallback has at most: [1-9]\d{0,6}, line 86.
MaxFallbackDigits == 7

\* The regex without its closing `$`: a token that starts with a match.
StartsWithNumber(text) ==
    /\ text # <<>>
    /\ text[1] \in Digits \ {"0"}

\* Lines 79 and 82 with the term of line 86: re.compile(r'^[1-9]\d{0,6}$',
\* re.I).match(text). A token holds no line break, so `$` is the end of the
\* text.
MatchesNumber(text) ==
    /\ Len(text) \in 1..MaxFallbackDigits
    /\ text[1] \in Digits \ {"0"}
    /\ \A i \in 2..Len(text) : text[i] \in Digits

\* Lines 78-84: search_spans(r'[1-9]\d{0,6}', 'count')
search_spans_count(tokens) ==
    LET matching == SelectSeq(tokens, LAMBDA span : MatchesNumber(span.text))
    IN  [k \in 1..Len(matching) |-> CountGroup(matching[k])]

\* AnnoTier.without_overlaps: the spans that overlap no span of the other
\* tier.
without_overlaps(spans, other) ==
    SelectSeq(spans, LAMBDA span :
        \A o \in 1..Len(other) :
            ~(span.start < other[o].end /\ other[o].start < span.end))

\* AnnoTier(numbers), line 87: the spans in the order of their offsets.
SortedTier(spans) ==
    SortSeq(spans, LAMBDA a, b :
        a.start < b.start \/ (a.start = b.start /\ a.end < b.end))

\* Lines 85-87: the tokens that are plain numbers join the candidates
\* unless a mention overlaps them.
AddTokens ==
    /\ pc = "tokens"
    /\ numbers' = SortedTier(numbers \o
           without_overlaps(search_spans_count(spacy_tokens), spacy_nes))
    /\ pc' = "entities"
    /\ UNCHANGED <<spacy_tokens, spacy_nes, ne_idx, synthVars, interpVars,
                   importVars>>

-----------------------------------------------------------------------------
(* annotate: table interpretation, lines 27-29 and 102-185                 *)
(*                                                                         *)
(* A cell of the table is a text with the entity spans that                *)
(* group_spans_by_containing_span finds inside it, each with its tier and  *)
(* its offsets in the cell.                                                *)

EntityTypes ==
    {"geoname", "date", "resolved_keyword", "number", "incident_type",
     "incident_status"}

\* str.strip()
RECURSIVE LStrip(_)
LStrip(s) ==
    IF s # <<>> /\ Head(s) \in Whitespace THEN LStrip(Tail(s)) ELSE s

RECURSIVE RStrip(_)
RStrip(s) ==
    IF s # <<>> /\ s[Len(s)] \in Whitespace
    THEN RStrip(SubSeq(s, 1, Len(s) - 1)) ELSE s

Strip(s) == RStrip(LStrip(s))

\* Lines 27-29
is_null(val_string) == Strip(val_string) = <<>> \/ Strip(val_string) = <<"-">>

\* Two spans overlap.
Overlaps(a, b) == a.start < b.end /\ b.start < a.end

\* The spans of a tier inside a cell.
TierIn(cell, type) == {e \in cell.entities : e.type = type}

\* numbers.without_overlaps(dates), inside a cell (line 137).
NumbersWithoutDates(cell) ==
    {e \in TierIn(cell, "number") :
        \A d \in TierIn(cell, "date") : ~Overlaps(e, d)}

\* Line 135-137: the spans of a type that count for column typing.
FilteredIn(cell, type) ==
    IF type = "number" THEN NumbersWithoutDates(cell) ELSE TierIn(cell, type)

MinStart(spans) == CHOOSE a \in {e.start : e \in spans} :
                       \A e \in spans : a <= e.start
MaxEnd(spans) == CHOOSE b \in {e.end : e \in spans} :
                     \A e \in spans : b >= e.end

\* Lines 138-140: SpanGroup(contained_spans), whose text runs from the first
\* span to the last, or None.
ColumnEntity(cell, type) ==
    IF FilteredIn(cell, type) = {} THEN NoneV
    ELSE SpanGroupV(SubSeq(cell.text, MinStart(FilteredIn(cell, type)) + 1,
                           MaxEnd(FilteredIn(cell, type))))

\* Lines 110-115: row 0 is a header when none of its cells holds a span of
\* the numbers tier.
HasHeaderFiltered(grid) ==
    \A c \in 1..Len(grid[1]) : NumbersWithoutDates(grid[1][c]) = {}

HasHeader(grid) ==
    \A c \in 1..Len(grid[1]) : TierIn(grid[1][c], "number") = {}

\* Lines 116-119
DataRowsAll(grid, header) == grid

DataRows(grid, header) == IF header THEN Tail(grid) ELSE grid

\* zip(*data_rows): as many columns as the shortest data row has cells.
RECURSIVE MinLen(_)
MinLen(seqs) ==
    IF seqs = <<>> THEN 0
    ELSE IF Len(seqs) = 1 THEN Len(seqs[1])
    ELSE IF Len(seqs[1]) < MinLen(Tail(seqs)) THEN Len(seqs[1])
    ELSE MinLen(Tail(seqs))

NumColumns(data_rows) == MinLen(data_rows)

ColumnValues(data_rows, c) == [r \in 1..Len(data_rows) |-> data_rows[r][c]]

\* Line 126
NumNonNullRows(column_values) ==
    Cardinality({r \in 1..Len(column_values) : ~is_null(column_values[r].text)})

\* Lines 138-143
ColumnEntities(column_values, type) ==
    [r \in 1..Len(column_values) |-> ColumnEntity(column_values[r], type)]

NumMatches(column_values, type) ==
    Cardinality({r \in 1..Len(column_values) :
                    ColumnEntity(column_values[r], type) # NoneV})

\* A type passes with 0.3 of the non-null rows.
EligibleFromThreeTenths(column_values, type) ==
    /\ NumNonNullRows(column_values) > 0
    /\ 10 * NumMatches(column_values, type) >= 3 * NumNonNullRows(column_values)

\* Line 145: float(num_matches) / num_non_null_rows > 0.3
Eligible(column_values, type) ==
    /\ NumNonNullRows(column_values) > 0
    /\ 10 * NumMatches(column_values, type) > 3 * NumNonNullRows(column_values)

\* Line 145 divides by num_non_null_rows only where `num_non_null_rows > 0
\* and` lets it: the division raises when it is made with a divisor of 0.
RaisesZeroDivisionErrorUnguarded(column_values) ==
    NumNonNullRows(column_values) = 0

RaisesZeroDivisionError(column_values) ==
    LET divides == NumNonNullRows(column_values) > 0
    IN  divides /\ NumNonNullRows(column_values) = 0

\* Lines 130-152: the loop over entities_by_type.items(), the types taken
\* in the order `order`; st is (max_matches, matching_column_entities,
\* column_type), matching_column_entities being <<>> while it is None.
RECURSIVE TypeLoopLast(_, _, _, _)
TypeLoopLast(column_values, order, k, st) ==
    IF k > Len(order) THEN st
    ELSE LET value_type == order[k]
             num_matches == NumMatches(column_values, value_type)
             st1 == IF /\ Eligible(column_values, value_type)
                       /\ num_matches >= st.max_matches
                    THEN [max_matches |-> num_matches,
                          matching_column_entities |->
                              <<ColumnEntities(column_values, value_type)>>,
                          column_type |-> value_type]
                    ELSE st
             st2 == IF st1.matching_column_entities = <<>>
                    THEN [st1 EXCEPT !.matching_column_entities =
                             <<[r \in 1..Len(column_values) |-> EmptyListV]>>]
                    ELSE st1
         IN TypeLoopLast(column_values, order, k + 1, st2)

RECURSIVE TypeLoop(_, _, _, _)
TypeLoop(column_values, order, k, st) ==
    IF k > Len(order) THEN st
    ELSE LET value_type == order[k]
             num_matches == NumMatches(column_values, value_type)
             st1 == IF /\ Eligible(column_values, value_type)
                       /\ num_matches > st.max_matches
                    THEN [max_matches |-> num_matches,
                          matching_column_entities |->
                              <<ColumnEntities(column_values, value_type)>>,
                          column_type |-> value_type]
                    ELSE st
             st2 == IF st1.matching_column_entities = <<>>
                    THEN [st1 EXCEPT !.matching_column_entities =
                             <<[r \in 1..Len(column_values) |-> EmptyListV]>>]
                    ELSE st1
         IN TypeLoop(column_values, order, k + 1, st2)

\* Lines 130-133
TypeLoopStart ==
    [max_matches |-> 0, matching_column_entities |-> <<>>,
     column_type |-> "text"]

\* The sequences that list the members of a set once each.
Orders(S) ==
    {f \in [1..Cardinality(S) -> S] :
        \A a, b \in 1..Cardinality(S) : a # b => f[a] # f[b]}

\* entities_by_type is a dict (lines 89-96): the language does not fix the
\* order in which items() yields its keys, only that one run keeps one
\* order. An order of the types is possible when it agrees with the pairs
\* (earlier, later) the run has shown so far.
AgreesWith(order, shown) ==
    \A a, b \in 1..Len(order) : a < b => <<order[b], order[a]>> \notin shown

OrderPairs(order) ==
    {<<order[ab[1]], order[ab[2]]>> : ab \in
        {x \in (1..Len(order)) \X (1..Len(order)) : x[1] < x[2]}}

RECURSIVE TransitiveClosure(_)
TransitiveClosure(R) ==
    LET more == R \cup {<<pq[1], rs[2]>> : <<pq, rs>> \in
                           {x \in R \X R : x[1][2] = x[2][1]}}
    IN IF more = R THEN R ELSE TransitiveClosure(more)

\* Lines 105-119: header detection. rows[0] raises IndexError on a table
\* without rows.
DetectHeader ==
    /\ pc = "table"
    /\ IF rows = <<>>
       THEN pc' = "IndexError" /\ UNCHANGED has_header
       ELSE pc' = "columns" /\ has_header' = HasHeader(rows)
    /\ UNCHANGED <<rows, column_types, parsed_column_entities, items_order,
                   first_run, synthVars, numVars, importVars>>

\* Lines 125-154, one turn of the loop over the columns. The types that
\* pass line 145 are taken in an order items() can have; the others leave
\* the loop's variables as they are wherever they come.
TypeColumn ==
    /\ pc = "columns"
    /\ Len(column_types) < NumColumns(DataRows(rows, has_header))
    /\ LET column_values ==
               ColumnValues(DataRows(rows, has_header), Len(column_types) + 1)
           eligible == {t \in EntityTypes : Eligible(column_values, t)}
       IN IF RaisesZeroDivisionError(column_values)
          THEN /\ pc' = "ZeroDivisionError"
               /\ UNCHANGED <<column_types, parsed_column_entities, items_order>>
          ELSE
          \E order \in Orders(eligible) :
             /\ AgreesWith(order, items_order)
             /\ items_order' =
                    TransitiveClosure(items_order \cup OrderPairs(order))
             /\ LET st == TypeLoop(column_values, order, 1, TypeLoopStart)
                    filler == [r \in 1..Len(column_values) |-> EmptyListV]
                IN /\ column_types' = Append(column_types, st.column_type)
                   /\ parsed_column_entities' =
                          Append(parsed_column_entities,
                                 IF st.matching_column_entities = <<>>
                                 THEN filler
                                 ELSE st.matching_column_entities[1])
             /\ pc' = "columns"
    /\ UNCHANGED <<rows, has_header, first_run, synthVars, numVars, importVars>>

\* Lines 155-165
ColumnDefinitions(grid, header, types) ==
    IF header
    THEN [c \in 1..(IF Len(types) < Len(grid[1]) THEN Len(types)
                    ELSE Len(grid[1])) |->
             [type |-> types[c], name |-> grid[1][c].text, has_name |-> TRUE]]
    ELSE [c \in 1..Len(types) |->
             [type |-> types[c], name |-> STR_empty, has_name |-> FALSE]]

\* Line 184: rows = zip(*parsed_column_entities)
ZipColumns(columns) ==
    [r \in 1..MinLen(columns) |-> [c \in 1..Len(columns) |-> columns[c][r]]]

\* Lines 155-185: the typed table is appended to tables; the incident loops
\* follow.
EmitTable ==
    /\ pc = "columns"
    /\ Len(column_types) = NumColumns(DataRows(rows, has_header))
    /\ tables' = Append(tables,
           [column_definitions |->
                ColumnDefinitions(rows, has_header, column_types),
            rows |-> ZipColumns(parsed_column_entities)])
    /\ pc' = "rows"
    /\ UNCHANGED <<table_idx, row_idx, row_incident_date,
                   row_incident_location, row_incident_base_type,
                   row_incident_status, row_incidents, max_new_cases,
                   max_new_deaths, incidents, interpVars, numVars, importVars>>

\* The annotator runs again on the same table and the same tiers; the
\* table of the first run is kept for comparison.
Rerun ==
    /\ pc = "rows"
    /\ first_run = <<>>
    /\ tables # <<>>
    /\ first_run' = tables
    /\ tables' = <<>>
    /\ has_header' = FALSE
    /\ column_types' = <<>>
    /\ parsed_column_entities' = <<>>
    /\ items_order' = {}
    /\ pc' = "table"
    /\ UNCHANGED <<rows, table_idx, row_idx, row_incident_date,
                   row_incident_location, row_incident_base_type,
                   row_incident_status, row_incidents, max_new_cases,
                   max_new_deaths, incidents, numVars, importVars>>

-----------------------------------------------------------------------------
(* Variables of the functions that are not running                         *)

SynthIdle ==
    /\ tables = <<>>
    /\ table_idx = 1
    /\ row_idx = 0
    /\ row_incident_date = NoneV
    /\ row_incident_location = NoneV
    /\ row_incident_base_type = None
    /\ row_incident_status = NoneV
    /\ row_incidents = <<>>
    /\ max_new_cases = -1
    /\ max_new_deaths = -1
    /\ incidents = <<>>

NumIdle ==
    /\ spacy_tokens = <<>>
    /\ spacy_nes = <<>>
    /\ ne_idx = 0
    /\ numbers = <<>>

InterpIdle ==
    /\ rows = <<>>
    /\ has_header = FALSE
    /\ column_types = <<>>
    /\ parsed_column_entities = <<>>
    /\ items_order = {}
    /\ first_run = <<>>

\* No file at ANNIE_DB_PATH, no open connection.
NoDatabase == [tables |-> {}]

\* `batch` before the loop of line 95 has bound it.
NoBatch == [ordinary |-> 0, batch |-> <<>>, last |-> FALSE]

ImportIdle ==
    /\ db_file = NoDatabase
    /\ connection = NoDatabase
    /\ geonames_csv = <<>>
    /\ ordinary_rows = 0
    /\ batch_yielded = NoBatch
    /\ i_count = 0

-----------------------------------------------------------------------------
(* Named-entity mentions handed to the number scan                         *)

MaxTextLen == 6

MentionChars == {"0", "5", " ", "t", "o"}

\* A mention covers whole tokens: its text is not empty and neither starts
\* nor ends with white space.
MentionTexts ==
    {t \in UNION {[1..n -> MentionChars] : n \in 1..MaxTextLen} :
        t[1] \notin Whitespace /\ t[Len(t)] \notin Whitespace}

MentionLabels == {"CARDINAL", "QUANTITY", "DATE"}

\* The offset of the mention in the document.
MentionStart == 3

\* The tokens of a text that starts at an offset of the document: its
\* runs of characters between white space.
RECURSIVE WordEnd(_, _)
WordEnd(text, p) ==
    IF p > Len(text) \/ text[p] \in Whitespace THEN p - 1
    ELSE WordEnd(text, p + 1)

RECURSIVE TokensFrom(_, _, _)
TokensFrom(text, p, offset) ==
    IF p > Len(text) THEN <<>>
    ELSE IF text[p] \in Whitespace THEN TokensFrom(text, p + 1, offset)
    ELSE <<[start |-> offset + p - 1, end |-> offset + WordEnd(text, p),
            text |-> SubSeq(text, p, WordEnd(text, p))]>>
             \o TokensFrom(text, WordEnd(text, p) + 1, offset)

InitNumbers ==
    /\ \E label \in MentionLabels, t \in MentionTexts :
          /\ spacy_nes = <<[label |-> label, start |-> MentionStart,
                            end |-> MentionStart + Len(t), text |-> t]>>
          /\ spacy_tokens = TokensFrom(t, 1, MentionStart)
    /\ ne_idx = 0
    /\ numbers = <<>>
    /\ pc = "nes"
    /\ SynthIdle /\ InterpIdle /\ ImportIdle

NextNumbers == ScanEntity \/ EntitiesScanned

SpecNumbers == InitNumbers /\ [][NextNumbers]_vars

\* Documents of up to MaxTokens tokens with at most one mention, which
\* covers one token or a run of tokens of up to MaxTextLen characters. A token is a digit, "0", a letter, the word
\* "to", or two, MaxFallbackDigits or MaxFallbackDigits + 1 characters:
\* digits, digits after "0", or digits before a letter.
MaxTokens == 2

Fives(n) == [i \in 1..n |-> "5"]

TokenTexts ==
    {<<"5">>, <<"0">>, <<"t">>, <<"t", "o">>}
        \cup UNION {{Fives(n), <<"0">> \o Fives(n - 1), Fives(n - 1) \o <<"t">>} :
                        n \in {2, MaxFallbackDigits, MaxFallbackDigits + 1}}

\* The text of the document: the tokens with a blank between them.
RECURSIVE DocumentText(_)
DocumentText(texts) ==
    IF Len(texts) = 1 THEN texts[1]
    ELSE texts[1] \o <<" ">> \o DocumentText(Tail(texts))

DocumentMention(texts, a, b, label) ==
    LET tokens == TokensFrom(DocumentText(texts), 1, 0)
    IN  [label |-> label, start |-> tokens[a].start, end |-> tokens[b].end,
         text |-> SubSeq(DocumentText(texts), tokens[a].start + 1,
                         tokens[b].end)]

InitTokens ==
    /\ \E texts \in UNION {[1..n -> TokenTexts] : n \in 1..MaxTokens} :
          /\ spacy_tokens = TokensFrom(DocumentText(texts), 1, 0)
          /\ \/ spacy_nes = <<>>
             \/ \E a, b \in 1..Len(texts), label \in MentionLabels :
                   /\ a <= b
                   /\ a < b => Len(DocumentMention(texts, a, b, label).text)
                                   <= MaxTextLen
                   /\ spacy_nes = <<DocumentMention(texts, a, b, label)>>
    /\ ne_idx = 0
    /\ numbers = <<>>
    /\ pc = "nes"
    /\ SynthIdle /\ InterpIdle /\ ImportIdle

NextTokens == ScanEntity \/ EntitiesScanned \/ AddTokens

SpecTokens == InitTokens /\ [][NextTokens]_vars
-----------------------------------------------------------------------------
(* StructuredIncidentAnnotator.annotate: incident synthesis, lines 187-281 *)

\* column.get('name', '').lower()
ColumnName(column) == IF column.has_name THEN Lower(column.name) ELSE STR_empty

\* zip(table.column_definitions, row) stops at the shorter of the two.
ZipLen(table, row) ==
    IF Len(table.column_definitions) < Len(row)
    THEN Len(table.column_definitions) ELSE Len(row)

CurTable == tables[table_idx]
\* Every row of a table is read as its first row.
CurRowFirst == CurTable.rows[1]

\* Line 189: the row of the loop.
CurRow == CurTable.rows[row_idx]

\* Lines 195-207: the last truthy cell of each context column type wins.
RECURSIVE LastOfType(_, _, _, _)
LastOfType(table, row, type, n) ==
    IF n = 0 THEN NoneV
    ELSE IF Truthy(row[n]) /\ table.column_definitions[n].type = type
         THEN row[n]
         ELSE LastOfType(table, row, type, n - 1)

\* Lines 201-205: an incident_type cell sets the row's base type only when
\* its text holds "case" or "death"; otherwise the earlier value is kept.
RECURSIVE RowBaseType(_, _, _)
RowBaseType(table, row, n) ==
    IF n = 0 THEN None
    ELSE IF Truthy(row[n]) /\ table.column_definitions[n].type = "incident_type"
         THEN IF Contains(STR_case, Lower(row[n].text)) THEN "caseCount"
              ELSE IF Contains(STR_death, Lower(row[n].text)) THEN "deathCount"
              ELSE RowBaseType(table, row, n - 1)
         ELSE RowBaseType(table, row, n - 1)

\* Lines 214-222 with the header read before the row's hint.
IncidentBaseTypeHeaderFirst(row_base_type, column_name) ==
    IF Contains(STR_cases, column_name) THEN "caseCount"
    ELSE IF Contains(STR_deaths, column_name) THEN "deathCount"
    ELSE IF row_base_type # None THEN row_base_type
    ELSE "caseCount"

\* Lines 214-222
IncidentBaseType(row_base_type, column_name) ==
    IF row_base_type # None THEN row_base_type
    ELSE IF Contains(STR_cases, column_name) THEN "caseCount"
    ELSE IF Contains(STR_deaths, column_name) THEN "deathCount"
    ELSE "caseCount"

\* Lines 223-231 and 246: filter(lambda x: x, [count_status])
Attributes(row_status, column_name) ==
    IF Truthy(row_status) THEN <<row_status.text>>
    ELSE IF Contains(STR_suspect, column_name) THEN <<STR_suspected>>
    ELSE IF Contains(STR_confirmed, column_name) THEN <<STR_confirmed>>
    ELSE <<>>

\* Lines 232-238; row_incident_aggregation is None throughout (line 194).
IncidentAggregationValueRule(column_name) ==
    IF Contains(STR_new, column_name) THEN "incremental" ELSE None

IncidentAggregation(column_name) ==
    IF Contains(STR_total, column_name) THEN "cumulative"
    ELSE IF Contains(STR_new, column_name) THEN "incremental"
    ELSE None

\* Lines 210-249: the drafts of the first n columns, left to right.
Drafts(t, r, table, row, base, status, location, date) ==
    LET n == ZipLen(table, row)
        Draft(c) ==
            LET column_name == ColumnName(table.column_definitions[c])
            IN [span |-> <<t, r, c>>,
                base_type |-> IncidentBaseType(base, column_name),
                aggregation |-> IncidentAggregation(column_name),
                value |-> parse_spelled_number(row[c].text),
                attributes |-> Attributes(status, column_name),
                location |-> location,
                dateRange |-> date]
        F[c \in 0..n] ==
            IF c = 0 THEN <<>>
            ELSE IF Truthy(row[c]) /\ table.column_definitions[c].type = "number"
                 THEN Append(F[c - 1], Draft(c))
                 ELSE F[c - 1]
    IN F[n]

\* Lines 252-262: the running maximum of one family, from -1.
RECURSIVE MaxNewFirstOnly(_, _, _, _)
MaxNewFirstOnly(drafts, cases, n, acc) ==
    IF n > Len(drafts) THEN acc
    ELSE IF /\ drafts[n].aggregation = "incremental"
            /\ (drafts[n].base_type = "caseCount") = cases
            /\ acc = -1
         THEN MaxNewFirstOnly(drafts, cases, n + 1, drafts[n].value)
         ELSE MaxNewFirstOnly(drafts, cases, n + 1, acc)

RECURSIVE MaxNew(_, _, _, _)
MaxNew(drafts, cases, n, acc) ==
    IF n > Len(drafts) THEN acc
    ELSE IF /\ drafts[n].aggregation = "incremental"
            /\ (drafts[n].base_type = "caseCount") = cases
            /\ acc < drafts[n].value
         THEN MaxNew(drafts, cases, n + 1, drafts[n].value)
         ELSE MaxNew(drafts, cases, n + 1, acc)

\* Lines 263-271
ResolvedAnyFamily(incident, new_cases, new_deaths) ==
    LET m == IF new_cases > new_deaths THEN new_cases ELSE new_deaths
    IN IF incident.aggregation = None /\ m >= 0 /\ incident.value > m
       THEN [incident EXCEPT !.aggregation = "cumulative"]
       ELSE incident

ResolvedAtLeast(incident, new_cases, new_deaths) ==
    LET m == IF incident.base_type = "caseCount" THEN new_cases ELSE new_deaths
    IN IF incident.aggregation = None /\ m >= 0 /\ incident.value >= m
       THEN [incident EXCEPT !.aggregation = "cumulative"]
       ELSE incident

Resolved(incident, new_cases, new_deaths) ==
    LET m == IF incident.base_type = "caseCount" THEN new_cases ELSE new_deaths
    IN IF incident.aggregation = None /\ m >= 0 /\ incident.value > m
       THEN [incident EXCEPT !.aggregation = "cumulative"]
       ELSE incident

\* Line 275: "cumulative" + base_type[0].upper() + base_type[1:]
CumulativeType(base_type) ==
    IF base_type = "caseCount" THEN "cumulativeCaseCount" ELSE "cumulativeDeathCount"

\* The type is set and the working fields stay.
FinalizedWithWorkingFields(incident) ==
    [span |-> incident.span,
     type |-> IF incident.aggregation = "cumulative"
              THEN CumulativeType(incident.base_type)
              ELSE incident.base_type,
     base_type |-> incident.base_type,
     aggregation |-> incident.aggregation,
     value |-> incident.value,
     attributes |-> incident.attributes,
     location |-> incident.location,
     dateRange |-> incident.dateRange]

\* Lines 272-279: the public metadata, without base_type and aggregation.
Finalized(incident) ==
    [span |-> incident.span,
     type |-> IF incident.aggregation = "cumulative"
              THEN CumulativeType(incident.base_type)
              ELSE incident.base_type,
     value |-> incident.value,
     attributes |-> incident.attributes,
     location |-> incident.location,
     dateRange |-> incident.dateRange]

\* The row's incidents put before those of the earlier rows.
ExtendFront(list, more) == more \o list

\* Line 280: incidents.extend(row_incidents)
Extend(list, more) == list \o more

\* Lines 188-189: the row after row r of table t in the two nested loops,
\* <<0, 0>> when the loops are over.
RECURSIVE NextPos(_, _, _)
NextPos(tbls, t, r) ==
    IF t > Len(tbls) THEN <<0, 0>>
    ELSE IF r + 1 <= Len(tbls[t].rows) THEN <<t, r + 1>>
    ELSE NextPos(tbls, t + 1, 0)

\* Lines 188-194: enter the next row and reset its context.
NextRow ==
    /\ pc = "rows"
    /\ NextPos(tables, table_idx, row_idx) # <<0, 0>>
    /\ table_idx' = NextPos(tables, table_idx, row_idx)[1]
    /\ row_idx' = NextPos(tables, table_idx, row_idx)[2]
    /\ row_incident_date' = NoneV
    /\ row_incident_location' = NoneV
    /\ row_incident_base_type' = None
    /\ row_incident_status' = NoneV
    /\ pc' = "context"
    /\ UNCHANGED <<numVars, interpVars, importVars>>
    /\ UNCHANGED <<tables, row_incidents, max_new_cases, max_new_deaths,
                   incidents>>

\* Lines 195-207: the row-level context pass.
ContextPass ==
    /\ pc = "context"
    /\ LET n == ZipLen(CurTable, CurRow)
       IN /\ row_incident_date' = LastOfType(CurTable, CurRow, "date", n)
          /\ row_incident_location' = LastOfType(CurTable, CurRow, "geoname", n)
          /\ row_incident_base_type' = RowBaseType(CurTable, CurRow, n)
          /\ row_incident_status' =
                 LastOfType(CurTable, CurRow, "incident_status", n)
    /\ pc' = "drafts"
    /\ UNCHANGED <<numVars, interpVars, importVars>>
    /\ UNCHANGED <<tables, table_idx, row_idx, row_incidents, max_new_cases,
                   max_new_deaths, incidents>>

\* Lines 209-249: one draft per truthy cell of a number column.
DraftPass ==
    /\ pc = "drafts"
    /\ row_incidents' =
           Drafts(table_idx, row_idx, CurTable, CurRow, row_incident_base_type,
                  row_incident_status, row_incident_location, row_incident_date)
    /\ pc' = "max"
    /\ UNCHANGED <<numVars, interpVars, importVars>>
    /\ UNCHANGED <<tables, table_idx, row_idx, row_incident_date,
                   row_incident_location, row_incident_base_type,
                   row_incident_status, max_new_cases, max_new_deaths,
                   incidents>>

\* Lines 250-262: the incremental maxima of the row, per family.
MaxPass ==
    /\ pc = "max"
    /\ max_new_cases' = MaxNew(row_incidents, TRUE, 1, -1)
    /\ max_new_deaths' = MaxNew(row_incidents, FALSE, 1, -1)
    /\ pc' = "resolve"
    /\ UNCHANGED <<numVars, interpVars, importVars>>
    /\ UNCHANGED <<tables, table_idx, row_idx, row_incident_date,
                   row_incident_location, row_incident_base_type,
                   row_incident_status, row_incidents, incidents>>

\* Lines 263-271: undetermined drafts above the maximum become cumulative.
ResolvePass ==
    /\ pc = "resolve"
    /\ row_incidents' =
           [i \in 1..Len(row_incidents) |->
               Resolved(row_incidents[i], max_new_cases, max_new_deaths)]
    /\ pc' = "finalize"
    /\ UNCHANGED <<numVars, interpVars, importVars>>
    /\ UNCHANGED <<tables, table_idx, row_idx, row_incident_date,
                   row_incident_location, row_incident_base_type,
                   row_incident_status, max_new_cases, max_new_deaths,
                   incidents>>

\* Lines 272-280: set the type, drop the working fields, extend the result.
FinalizePass ==
    /\ pc = "finalize"
    /\ row_incidents' =
           [i \in 1..Len(row_incidents) |-> Finalized(row_incidents[i])]
    /\ incidents' = Extend(incidents, row_incidents')
    /\ pc' = "rows"
    /\ UNCHANGED <<numVars, interpVars, importVars>>
    /\ UNCHANGED <<tables, table_idx, row_idx, row_incident_date,
                   row_incident_location, row_incident_base_type,
                   row_incident_status, max_new_cases, max_new_deaths>>

\* Line 281: both loops are over.
Return ==
    /\ pc = "rows"
    /\ NextPos(tables, table_idx, row_idx) = <<0, 0>>
    /\ pc' = "returned"
    /\ UNCHANGED <<numVars, interpVars, importVars>>
    /\ UNCHANGED <<tables, table_idx, row_idx, row_incident_date,
                   row_incident_location, row_incident_base_type,
                   row_incident_status, row_incidents, max_new_cases,
                   max_new_deaths, incidents>>
-----------------------------------------------------------------------------
(* Typed tables handed to the synthesis                                    *)

MaxCols == 3

HeaderColumn(type, name) == [type |-> type, name |-> name, has_name |-> TRUE]

\* Column definitions of a table with a header row (lines 156-161).
NumberColumns ==
    {HeaderColumn("number", h) :
        h \in {HDR_New, HDR_Total, HDR_Confirmed, HDR_NewDeaths,
               HDR_TotalNewCases}}

SynthColumns == NumberColumns \cup {HeaderColumn("incident_type", HDR_Type)}

\* The resolved entities a cell of a column can hold (lines 138-140): a
\* number cell holds one number of the numbers tier, an incident_type cell
\* one keyword matched by (case|death)s?.
CellValues(column) ==
    IF column.type = "number"
    THEN {NoneV, SpanGroupV(<<"0">>), SpanGroupV(<<"1">>)}
    ELSE {NoneV, SpanGroupV(TXT_Cases), SpanGroupV(TXT_Deaths)}

\* A row whose every cell holds an entity. A column is typed only when more
\* than 30% of its non-null cells hold one (line 145), so a table with a
\* None cell has another row that holds an entity in that column.
FullRow(columns) ==
    [c \in 1..Len(columns) |->
        IF columns[c].type = "number"
        THEN SpanGroupV(<<"1">>) ELSE SpanGroupV(TXT_Cases)]

\* Column definitions of a table without header row (lines 163-165).
BareColumn(type) == [type |-> type, name |-> STR_empty, has_name |-> FALSE]

BareColumns == {BareColumn("number"), BareColumn("incident_type")}

\* A table has a header row or none: its columns all have a name or none has.
Layouts(cols) == UNION {[1..n -> cols] : n \in 1..MaxCols}

RowsOf(columns) ==
    {row \in [1..Len(columns) ->
                 UNION {CellValues(c) : c \in SynthColumns \cup BareColumns}] :
        \A c \in 1..Len(columns) : row[c] \in CellValues(columns[c])}

InitSynth ==
    /\ \E columns \in Layouts(SynthColumns) \cup Layouts(BareColumns) :
          \E row \in RowsOf(columns) :
             tables = <<[column_definitions |-> columns,
                         rows |-> <<row, FullRow(columns)>>]>>
    /\ table_idx = 1
    /\ row_idx = 0
    /\ row_incident_date = NoneV
    /\ row_incident_location = NoneV
    /\ row_incident_base_type = None
    /\ row_incident_status = NoneV
    /\ row_incidents = <<>>
    /\ max_new_cases = -1
    /\ max_new_deaths = -1
    /\ incidents = <<>>
    /\ pc = "rows"
    /\ NumIdle /\ InterpIdle /\ ImportIdle

NextSynth ==
    \/ NextRow
    \/ ContextPass
    \/ DraftPass
    \/ MaxPass
    \/ ResolvePass
    \/ FinalizePass
    \/ Return

SpecSynth == InitSynth /\ [][NextSynth]_vars

\* Tables whose headers name what a count is: number columns headed
\* "Susceptible", "Cases", "Deaths", "Suspect" and "Confirmed", a column of
\* incident types and a column of incident statuses.
HintColumns ==
    {HeaderColumn("number", h) :
        h \in {<<"S", "u", "s", "c", "e", "p", "t", "i", "b", "l", "e">>,
               TXT_Cases, TXT_Deaths,
               <<"S", "u", "s", "p", "e", "c", "t">>, HDR_Confirmed}}
    \cup {HeaderColumn("incident_type", HDR_Type),
          HeaderColumn("incident_status", <<"S", "t", "a", "t", "u", "s">>)}

\* The resolved entities of a cell: an incident_status cell holds a keyword
\* matched by suspected|confirmed (line 95).
HintCellValues(column) ==
    IF column.type = "number" THEN {NoneV, SpanGroupV(<<"1">>)}
    ELSE IF column.type = "incident_type"
    THEN {NoneV, SpanGroupV(TXT_Cases), SpanGroupV(TXT_Deaths)}
    ELSE {NoneV, SpanGroupV(STR_confirmed)}

\* A row whose every cell holds an entity, as FullRow.
HintFullRow(columns) ==
    [c \in 1..Len(columns) |->
        SpanGroupV(IF columns[c].type = "number" THEN <<"1">>
                   ELSE IF columns[c].type = "incident_type" THEN TXT_Cases
                   ELSE STR_confirmed)]

HintLayouts == UNION {[1..n -> HintColumns] : n \in 1..MaxCols}

InitSynthHints ==
    /\ \E columns \in HintLayouts :
          \E row \in [1..Len(columns) ->
                         UNION {HintCellValues(c) : c \in HintColumns}] :
             /\ \A c \in 1..Len(columns) : row[c] \in HintCellValues(columns[c])
             /\ tables = <<[column_definitions |-> columns,
                            rows |-> <<row, HintFullRow(columns)>>]>>
    /\ table_idx = 1
    /\ row_idx = 0
    /\ row_incident_date = NoneV
    /\ row_incident_location = NoneV
    /\ row_incident_base_type = None
    /\ row_incident_status = NoneV
    /\ row_incidents = <<>>
    /\ max_new_cases = -1
    /\ max_new_deaths = -1
    /\ incidents = <<>>
    /\ pc = "rows"
    /\ NumIdle /\ InterpIdle /\ ImportIdle

SpecSynthHints == InitSynthHints /\ [][NextSynth]_vars

\* Documents of several tables: a table has two number columns without
\* header and up to MaxDocRows rows, a row holds a number in both cells or
\* in the second only.
MaxTables == 2

MaxDocRows == 2

DocRows == {<<SpanGroupV(<<"1">>), SpanGroupV(<<"1">>)>>,
            <<NoneV, SpanGroupV(<<"1">>)>>}

DocTables ==
    {[column_definitions |-> <<BareColumn("number"), BareColumn("number")>>,
      rows |-> table_rows] :
        table_rows \in UNION {[1..n -> DocRows] : n \in 0..MaxDocRows}}

InitSynthDocument ==
    /\ tables \in UNION {[1..n -> DocTables] : n \in 1..MaxTables}
    /\ table_idx = 1
    /\ row_idx = 0
    /\ row_incident_date = NoneV
    /\ row_incident_location = NoneV
    /\ row_incident_base_type = None
    /\ row_incident_status = NoneV
    /\ row_incidents = <<>>
    /\ max_new_cases = -1
    /\ max_new_deaths = -1
    /\ incidents = <<>>
    /\ pc = "rows"
    /\ NumIdle /\ InterpIdle /\ ImportIdle

SpecSynthDocument == InitSynthDocument /\ [][NextSynth]_vars

\* Two tables with the same header and one row in common, which stands
\* after the other row of its table or before it. The other row of the
\* first table is any row, that of the second holds an entity everywhere.
MaxPairCols == 2

PairColumns ==
    {HeaderColumn("number", h) : h \in {HDR_New, HDR_Confirmed}}
        \cup {HeaderColumn("incident_type", HDR_Type)}

PairTable(columns, row, other, last) ==
    [column_definitions |-> columns,
     rows |-> IF last THEN <<other, row>> ELSE <<row, other>>]

InitSynthPair ==
    /\ \E columns \in UNION {[1..n -> PairColumns] : n \in 1..MaxPairCols} :
          \E row \in RowsOf(columns), other \in RowsOf(columns),
             last \in BOOLEAN :
                tables = <<PairTable(columns, row, other, last),
                           PairTable(columns, row, FullRow(columns), last)>>
    /\ table_idx = 1
    /\ row_idx = 0
    /\ row_incident_date = NoneV
    /\ row_incident_location = NoneV
    /\ row_incident_base_type = None
    /\ row_incident_status = NoneV
    /\ row_incidents = <<>>
    /\ max_new_cases = -1
    /\ max_new_deaths = -1
    /\ incidents = <<>>
    /\ pc = "rows"
    /\ NumIdle /\ InterpIdle /\ ImportIdle

SpecSynthPair == InitSynthPair /\ [][NextSynth]_vars
-----------------------------------------------------------------------------
(* Tables handed to the interpretation                                     *)

MaxGridRows == 2

Entity(type, start, end) == [type |-> type, start |-> start, end |-> end]

\* "": an empty cell.
CELL_Blank == [text |-> <<>>, entities |-> {}]
\* " -": a null cell.
CELL_Dash == [text |-> <<" ", "-">>, entities |-> {}]
\* "New": a word no tier knows.
CELL_New == [text |-> HDR_New, entities |-> {}]
\* "5": a number.
CELL_Number == [text |-> <<"5">>, entities |-> {Entity("number", 0, 1)}]
\* "Cases": an incident type keyword.
CELL_Cases == [text |-> TXT_Cases, entities |-> {Entity("incident_type", 0, 5)}]
\* "3 Nov": a date, whose day the numbers tier holds too.
CELL_Date ==
    [text |-> <<"3", " ", "N", "o", "v">>,
     entities |-> {Entity("date", 0, 5), Entity("number", 0, 1)}]
\* "5 cases": a number and an incident type keyword.
CELL_NumberCases ==
    [text |-> <<"5", " ", "c", "a", "s", "e", "s">>,
     entities |-> {Entity("number", 0, 1), Entity("incident_type", 2, 7)}]

AnnotateCells == {CELL_Blank, CELL_New, CELL_Number, CELL_Cases, CELL_Date}

RerunCells == {CELL_Dash, CELL_New, CELL_Number, CELL_Cases, CELL_NumberCases}

\* A row of one or two cells.
GridRows(cells) == {<<a>> : a \in cells} \cup {<<a, b>> : a, b \in cells}

Grids(cells) == UNION {[1..n -> GridRows(cells)] : n \in 1..MaxGridRows}

InitInterp(cells) ==
    /\ rows \in Grids(cells)
    /\ has_header = FALSE
    /\ column_types = <<>>
    /\ parsed_column_entities = <<>>
    /\ items_order = {}
    /\ first_run = <<>>
    /\ pc = "table"
    /\ SynthIdle /\ NumIdle /\ ImportIdle

\* One run of annotate on a document with one table.
InitAnnotate == InitInterp(AnnotateCells)

NextAnnotate == DetectHeader \/ TypeColumn \/ EmitTable \/ NextSynth

SpecAnnotate == InitAnnotate /\ [][NextAnnotate]_vars

\* Two runs of the table interpretation on one table.
InitRerun == InitInterp(RerunCells)

NextRerun == DetectHeader \/ TypeColumn \/ EmitTable \/ Rerun

SpecRerun == InitRerun /\ [][NextRerun]_vars

\* Tables of one long column: so many cells "5", then cells "5 cases",
\* dates, words and empty cells.
MaxColumnRows == 10

ColumnCells == <<CELL_Number, CELL_NumberCases, CELL_Date, CELL_New, CELL_Blank>>

RECURSIVE Blocks(_, _)
Blocks(cells, counts) ==
    IF cells = <<>> THEN <<>>
    ELSE [r \in 1..counts[1] |-> <<cells[1]>>]
             \o Blocks(Tail(cells), Tail(counts))

InitColumn ==
    /\ \E counts \in [1..Len(ColumnCells) -> 0..MaxColumnRows] :
          /\ rows = Blocks(ColumnCells, counts)
          /\ Len(rows) \in 1..MaxColumnRows
    /\ has_header = FALSE
    /\ column_types = <<>>
    /\ parsed_column_entities = <<>>
    /\ items_order = {}
    /\ first_run = <<>>
    /\ pc = "table"
    /\ SynthIdle /\ NumIdle /\ ImportIdle

NextColumn == DetectHeader \/ TypeColumn \/ EmitTable

SpecColumn == InitColumn /\ [][NextColumn]_vars

-----------------------------------------------------------------------------
(* sqlite_import_geonames.py                                               *)
(*                                                                         *)
(* db_file is the database at ANNIE_DB_PATH as a process that opens it     *)
(* finds it: NoDatabase while no file exists, else what has been committed.      *)
(* connection is the database as the running import sees it, with the      *)
(* rows of its open transaction. A row of the input carries the three      *)
(* fields the alternate names are made of. The file is ordinary_rows       *)
(* ordinary rows followed by the rows of geonames_csv; an ordinary row has *)
(* an id of its own, a name and an empty alternatenames field, and the     *)
(* database keeps the number of the ordinary rows of each of its tables.   *)

batch_size == 100

total_row_estimate == 11000000

\* str.split(',')
RECURSIVE Split(_)
Split(s) ==
    IF \A k \in 1..Len(s) : s[k] # ","
    THEN <<s>>
    ELSE LET p == CHOOSE k \in 1..Len(s) :
                      s[k] = "," /\ \A j \in 1..(k - 1) : s[j] # ","
         IN  <<SubSeq(s, 1, p - 1)>> \o Split(SubSeq(s, p + 1, Len(s)))

\* What int, float and parse_number give: an int, a float of
\* value / 10^places with no closing zero in its places, or the ValueError
\* of a text that is no number.
IntV(n) == [type |-> "int", value |-> n, places |-> 0]

RECURSIVE FloatV(_, _)
FloatV(m, p) ==
    IF p > 0 /\ m % 10 = 0 THEN FloatV(m \div 10, p - 1)
    ELSE [type |-> "float", value |-> m, places |-> p]

ValueError == [type |-> "ValueError", value |-> 0, places |-> 0]

\* The reading of a number, one character after the other: `at` is what
\* has been read ("start", "sign", "int", "point" for a point without
\* digit before it, "frac"), `m` the digits read, `p` how many of them
\* follow the point. `points` says whether a point may be read.
RECURSIVE ScanNumber(_, _, _, _, _, _)
ScanNumber(s, at, negative, m, p, points) ==
    IF s = <<>>
    THEN IF at \in {"start", "sign", "point"} THEN ValueError
         ELSE IF points THEN FloatV(IF negative THEN -m ELSE m, p)
         ELSE IntV(IF negative THEN -m ELSE m)
    ELSE LET c == Head(s)
         IN  IF c \in Digits
             THEN ScanNumber(Tail(s),
                             IF at \in {"point", "frac"} THEN "frac" ELSE "int",
                             negative, 10 * m + DigitValue(c),
                             IF at \in {"point", "frac"} THEN p + 1 ELSE p,
                             points)
             ELSE IF c = "-" /\ at = "start"
             THEN ScanNumber(Tail(s), "sign", TRUE, m, p, points)
             ELSE IF c = "." /\ points /\ at \in {"start", "sign", "int"}
             THEN ScanNumber(Tail(s), IF at = "int" THEN "frac" ELSE "point",
                             negative, m, p, points)
             ELSE ValueError

\* int(num) and float(num) of a text without blanks
int(num) == ScanNumber(num, "start", FALSE, 0, 0, FALSE)

float(num) == ScanNumber(num, "start", FALSE, 0, 0, TRUE)

\* parse_number with float tried before int.
parse_number_float_first(num, default) ==
    IF float(num) # ValueError THEN float(num)
    ELSE IF int(num) # ValueError THEN int(num)
    ELSE default

\* Lines 12-19
parse_number(num, default) ==
    IF int(num) # ValueError THEN int(num)
    ELSE IF float(num) # ValueError THEN float(num)
    ELSE default

\* Lines 58-66, one row.
ParsedRow(d) ==
    [d EXCEPT !.population = parse_number(d.population, IntV(0)),
              !.latitude = parse_number(d.latitude, IntV(0)),
              !.longitude = parse_number(d.longitude, IntV(0)),
              !.alternatenames =
        IF Len(d.alternatenames) > 0 THEN Split(d.alternatenames) ELSE <<>>]

read_geonames_csv == [k \in 1..Len(geonames_csv) |-> ParsedRow(geonames_csv[k])]

\* Batches of batch_size - 1 rows.
batched_one_short(ordinary, array, done) ==
    LET left == ordinary + Len(array) - done
        size == IF left >= batch_size THEN batch_size - 1 ELSE left
        from_ordinary == IF done + size <= ordinary THEN size
                         ELSE IF done >= ordinary THEN 0 ELSE ordinary - done
    IN  [ordinary |-> from_ordinary,
         batch |-> SubSeq(array, done + from_ordinary - ordinary + 1,
                          done + size - ordinary),
         last |-> left < batch_size]

\* Lines 68-77: the batch that follows `done` yielded rows, and whether it
\* is the one yielded after the loop.
\* The batch holds `ordinary` ordinary rows, then the rows of `batch`.
batched(ordinary, array, done) ==
    LET left == ordinary + Len(array) - done
        size == IF left >= batch_size THEN batch_size ELSE left
        from_ordinary == IF done + size <= ordinary THEN size
                         ELSE IF done >= ordinary THEN 0 ELSE ordinary - done
    IN  [ordinary |-> from_ordinary,
         batch |-> SubSeq(array, done + from_ordinary - ordinary + 1,
                          done + size - ordinary),
         last |-> left < batch_size]

\* What sqlite3.connect finds in a file it has just created.
EmptyDb ==
    [tables |-> {}, geonames |-> {}, alternatenames |-> EmptyBag,
     alternatename_index |-> FALSE, alternatename_counts |-> {},
     ordinary_geonames |-> 0, ordinary_alternatenames |-> 0,
     ordinary_counts |-> 0]

RECURSIVE SeqToBag(_)
SeqToBag(s) ==
    IF s = <<>> THEN EmptyBag ELSE SetToBag({Head(s)}) (+) SeqToBag(Tail(s))

SeqToSet(s) == {s[k] : k \in 1..Len(s)}

AlternatenameTuple(geoname, alternatename) ==
    [geonameid |-> geoname.geonameid,
     alternatename |-> alternatename,
     alternatename_lemmatized |-> Strip(Lower(alternatename))]

\* The rows of lines 108-112 without the set().
alternatename_tuples_of_list(geoname) ==
    SeqToBag([k \in 1..(Len(geoname.alternatenames) + 1) |->
        AlternatenameTuple(geoname,
            (geoname.alternatenames \o <<geoname.name>>)[k])])

\* Lines 108-112, the rows of one place.
alternatename_tuples_of(geoname) ==
    SetToBag({AlternatenameTuple(geoname, alternatename) :
        alternatename \in SeqToSet(geoname.alternatenames \o <<geoname.name>>)})

RECURSIVE alternatename_tuples(_)
alternatename_tuples(batch) ==
    IF batch = <<>> THEN EmptyBag
    ELSE alternatename_tuples_of(Head(batch)) (+) alternatename_tuples(Tail(batch))

\* Lines 104-107
geoname_tuples(batch) ==
    [k \in 1..Len(batch) |->
        [geonameid |-> batch[k].geonameid, name |-> batch[k].name,
         latitude |-> batch[k].latitude, longitude |-> batch[k].longitude,
         population |-> batch[k].population]]

\* The primary key of geonames (line 24) refuses one of the rows.
IntegrityError(db, tuples) ==
    \/ \E k \in 1..Len(tuples) : \E g \in db.geonames :
          g.geonameid = tuples[k].geonameid
    \/ \E j, k \in 1..Len(tuples) :
          j # k /\ tuples[j].geonameid = tuples[k].geonameid

\* Lines 99-103: a row whose number is a multiple of total_row_estimate/40
\* is in the batch that follows `done` rows.
CommitsInBatch(done, size) ==
    LET every == total_row_estimate \div 40
    IN  (done + size) \div every > done \div every

\* Lines 101-103 come before lines 113-114: the commit of a batch keeps what
\* the connection held before the batch.
PeriodicCommitBetween(before, between, after) == between

PeriodicCommit(before, between, after) == before

\* Line 113
InsertGeonames(db, next) ==
    [db EXCEPT !.geonames = @ \cup SeqToSet(geoname_tuples(next.batch)),
               !.ordinary_geonames = @ + next.ordinary]

\* Line 114; an ordinary row gives one row, that of its name.
InsertAlternatenames(db, next) ==
    [db EXCEPT !.alternatenames = @ (+) alternatename_tuples(next.batch),
               !.ordinary_alternatenames = @ + next.ordinary]

\* count(alternatename) of the rows of one place, lines 124-126
JoinCount(db, geonameid) ==
    LET matching == {r \in BagToSet(db.alternatenames) : r.geonameid = geonameid}
        RECURSIVE Sum(_)
        Sum(S) == IF S = {} THEN 0
                  ELSE LET r == CHOOSE x \in S : TRUE
                       IN  CopiesIn(r, db.alternatenames) + Sum(S \ {r})
    IN  Sum(matching)

\* Lines 122-127
CountsSelect(db) ==
    {[geonameid |-> g.geonameid, count |-> JoinCount(db, g.geonameid)] :
        g \in {x \in db.geonames : JoinCount(db, x.geonameid) > 0}}

Stopped == {"main", "return", "closed", "interrupted", "IntegrityError"}

\* create_sqlite_db without lines 80-82.
create_sqlite_db_unchecked ==
    /\ pc \in Stopped
    /\ i_count' = 0
    /\ db_file' = IF db_file # NoDatabase THEN db_file ELSE EmptyDb
    /\ connection' = db_file'
    /\ pc' = "connected"
    /\ batch_yielded' = NoBatch
    /\ UNCHANGED <<geonames_csv, ordinary_rows, synthVars, numVars, interpVars>>

\* Lines 80-83; the same input is downloaded by every run.
create_sqlite_db ==
    /\ pc \in Stopped
    /\ i_count' = 0
    /\ IF db_file # NoDatabase
       THEN /\ pc' = "return"
            /\ UNCHANGED <<db_file, connection>>
       ELSE /\ db_file' = EmptyDb
            /\ connection' = EmptyDb
            /\ pc' = "connected"
    /\ batch_yielded' = NoBatch
    /\ UNCHANGED <<geonames_csv, ordinary_rows, synthVars, numVars, interpVars>>

\* A statement that is no INSERT runs outside a transaction: the open
\* transaction is committed first and the statement's effect is on disk
\* when it returns.
AutoCommit(db, next) ==
    /\ connection' = db
    /\ db_file' = db
    /\ pc' = next
    /\ UNCHANGED <<geonames_csv, ordinary_rows, batch_yielded, i_count, synthVars, numVars, interpVars>>

\* Lines 86-88
CreateGeonames ==
    /\ pc = "connected"
    /\ AutoCommit([connection EXCEPT !.tables = @ \cup {"geonames"}],
                  "geonames")

\* Lines 89-90
CreateAlternatenames ==
    /\ pc = "geonames"
    /\ AutoCommit([connection EXCEPT !.tables = @ \cup {"alternatenames"}],
                  "batches")

\* Lines 95-114, one batch.
ImportBatch ==
    /\ pc = "batches"
    /\ LET next == batched(ordinary_rows, read_geonames_csv, i_count)
           size == next.ordinary + Len(next.batch)
           between == InsertGeonames(connection, next)
           after == InsertAlternatenames(between, next)
       IN  /\ batch_yielded' = next
           /\ i_count' = i_count + size
           /\ db_file' = IF CommitsInBatch(i_count, size)
                         THEN PeriodicCommit(connection, between, after)
                         ELSE db_file
           /\ IF IntegrityError(connection, geoname_tuples(next.batch))
              THEN /\ connection' = NoDatabase
                   /\ pc' = "IntegrityError"
              ELSE /\ connection' = after
                   /\ pc' = IF next.last THEN "index" ELSE "batches"
    /\ UNCHANGED <<geonames_csv, ordinary_rows, synthVars, numVars, interpVars>>

\* Lines 115-118
CreateIndex ==
    /\ pc = "index"
    /\ AutoCommit([connection EXCEPT !.alternatename_index = TRUE], "indexed")

\* Lines 119 and 128
Commit(at, next) ==
    /\ pc = at
    /\ db_file' = connection
    /\ pc' = next
    /\ UNCHANGED <<connection, geonames_csv, ordinary_rows, batch_yielded, i_count,
                   synthVars, numVars, interpVars>>

CommitIndex == Commit("indexed", "counts_table")

\* Lines 120-121
CreateCounts ==
    /\ pc = "counts_table"
    /\ AutoCommit([connection EXCEPT !.tables = @ \cup {"alternatename_counts"}],
                  "counts")

\* Lines 122-127
InsertCounts ==
    /\ pc = "counts"
    /\ connection' =
          [connection EXCEPT
              !.alternatename_counts = CountsSelect(connection),
              !.ordinary_counts = connection.ordinary_geonames]
    /\ pc' = "counted"
    /\ UNCHANGED <<db_file, geonames_csv, ordinary_rows, batch_yielded, i_count,
                   synthVars, numVars, interpVars>>

CommitCounts == Commit("counted", "committed")

\* Line 129
Close ==
    /\ pc = "committed"
    /\ connection' = NoDatabase
    /\ pc' = "closed"
    /\ UNCHANGED <<db_file, geonames_csv, ordinary_rows, batch_yielded, i_count,
                   synthVars, numVars, interpVars>>

\* The process is stopped between two statements: the open transaction is
\* lost, the file keeps what was committed.
Interrupt ==
    /\ pc \notin Stopped
    /\ connection' = NoDatabase
    /\ pc' = "interrupted"
    /\ UNCHANGED <<db_file, geonames_csv, ordinary_rows, batch_yielded, i_count,
                   synthVars, numVars, interpVars>>

-----------------------------------------------------------------------------
(* The rows of allCountries.txt                                            *)

MaxPlaces == 2

GeonameIds == {<<"1">>, <<"2">>}

\* "", "a", "A "
Names == {<<>>, <<"a">>, <<"A", " ">>}

\* "", "a", "a,a", "a,,A", ",a,"
AlternatenamesFields ==
    {<<>>, <<"a">>, <<"a", ",", "a">>, <<"a", ",", ",", "A">>,
     <<",", "a", ",">>}

\* "1"
OrdinaryNumber == <<"1">>

CsvRows ==
    [geonameid : GeonameIds, name : Names, alternatenames : AlternatenamesFields,
     latitude : {OrdinaryNumber}, longitude : {OrdinaryNumber},
     population : {OrdinaryNumber}]

InitImport ==
    /\ geonames_csv \in UNION {[1..n -> CsvRows] : n \in 0..MaxPlaces}
    /\ ordinary_rows = 0
    /\ db_file = NoDatabase
    /\ connection = NoDatabase
    /\ batch_yielded = NoBatch
    /\ i_count = 0
    /\ pc = "main"
    /\ SynthIdle /\ NumIdle /\ InterpIdle

NextImport ==
    \/ create_sqlite_db
    \/ CreateGeonames
    \/ CreateAlternatenames
    \/ ImportBatch
    \/ CreateIndex
    \/ CommitIndex
    \/ CreateCounts
    \/ InsertCounts
    \/ CommitCounts
    \/ Close
    \/ Interrupt

SpecImport == InitImport /\ [][NextImport]_vars

\* The texts of the number fields: up to MaxNumberLen characters.
MaxNumberLen == 3

NumberChars == {"0", "1", "-", ".", "x"}

NumberTexts ==
    UNION {[1..n -> NumberChars] : n \in 0..MaxNumberLen}

\* "0.1", "x"
CoordinateTexts == {<<"0", ".", "1">>, <<"x">>}

\* One place, whose population is any text.
InitImportNumbers ==
    /\ geonames_csv \in
          {<<row>> : row \in
              [geonameid : {<<"1">>}, name : {<<"a">>}, alternatenames : {<<>>},
               latitude : CoordinateTexts, longitude : CoordinateTexts,
               population : NumberTexts]}
    /\ ordinary_rows = 0
    /\ db_file = NoDatabase
    /\ connection = NoDatabase
    /\ batch_yielded = NoBatch
    /\ i_count = 0
    /\ pc = "main"
    /\ SynthIdle /\ NumIdle /\ InterpIdle

SpecImportNumbers == InitImportNumbers /\ [][NextImport]_vars

\* Files long enough for the commit of lines 101-103: the row whose number
\* is total_row_estimate/40 is an ordinary row or one of geonames_csv.
LongCsvRows ==
    [geonameid : GeonameIds, name : {<<"a">>}, alternatenames : {<<>>},
     latitude : {OrdinaryNumber}, longitude : {OrdinaryNumber},
     population : {OrdinaryNumber}]

LongFiles ==
    {total_row_estimate \div 40 - k : k \in 0..MaxPlaces}

InitImportLong ==
    /\ geonames_csv \in UNION {[1..n -> LongCsvRows] : n \in 0..MaxPlaces}
    /\ ordinary_rows \in LongFiles
    /\ db_file = NoDatabase
    /\ connection = NoDatabase
    /\ batch_yielded = NoBatch
    /\ i_count = 0
    /\ pc = "main"
    /\ SynthIdle /\ NumIdle /\ InterpIdle

SpecImportLong == InitImportLong /\ [][NextImport]_vars

\* Files of about a whole number of batches: none, one or more batches of
\* rows, less up to MaxPlaces ordinary rows, then the rows of geonames_csv.
MaxBatches == 2

BatchFiles ==
    {n \in {k * batch_size - j : k \in 0..MaxBatches, j \in 0..MaxPlaces} :
        n >= 0}

InitImportBatches ==
    /\ geonames_csv \in UNION {[1..n -> LongCsvRows] : n \in 0..MaxPlaces}
    /\ ordinary_rows \in BatchFiles
    /\ db_file = NoDatabase
    /\ connection = NoDatabase
    /\ batch_yielded = NoBatch
    /\ i_count = 0
    /\ pc = "main"
    /\ SynthIdle /\ NumIdle /\ InterpIdle

SpecImportBatches == InitImportBatches /\ [][NextImport]_vars

-----------------------------------------------------------------------------
(* Properties of the aggregation passes                                    *)

\* The lower-cased header of the column an incident of the current row
\* comes from.
HeaderOf(incident) == ColumnName(CurTable.column_definitions[incident.span[3]])

HasTotal(incident) == Contains(STR_total, HeaderOf(incident))
\* A "new"-headed count: the header holds "new" and not "total".
NewHeaded(incident) ==
    Contains(STR_new, HeaderOf(incident)) /\ ~HasTotal(incident)
NoHint(incident) ==
    ~Contains(STR_new, HeaderOf(incident)) /\ ~HasTotal(incident)

IsCumulativeType(type) == type \in {"cumulativeCaseCount", "cumulativeDeathCount"}
IsPlainType(type) == type \in {"caseCount", "deathCount"}
FamilyOfType(type) ==
    IF type \in {"caseCount", "cumulativeCaseCount"} THEN "caseCount"
    ELSE "deathCount"

\* The row's drafts carry base_type and aggregation.
DraftsBuilt == pc \in {"max", "resolve", "finalize"}
\* The row's incidents carry their public type.
RowFinalized == pc = "rows" /\ row_idx > 0

RowIdx == 1..Len(row_incidents)

C2_CumulativeAboveIncremental ==
    [][pc = "finalize" =>
          \A i, j \in RowIdx :
              (/\ IsCumulativeType(row_incidents'[i].type)
               /\ row_incidents[j].aggregation = "incremental"
               /\ row_incidents[j].base_type = row_incidents[i].base_type)
              => row_incidents[i].value > row_incidents[j].value]_vars

\* C2 amended: the same, for the incidents whose header does not hold
\* "total" (a "total" header makes the incident cumulative whatever its
\* value).
C2_InferredCumulativeAboveIncremental ==
    [][pc = "finalize" =>
          \A i, j \in RowIdx :
              (/\ IsCumulativeType(row_incidents'[i].type)
               /\ ~HasTotal(row_incidents[i])
               /\ row_incidents[j].aggregation = "incremental"
               /\ row_incidents[j].base_type = row_incidents[i].base_type)
              => row_incidents[i].value > row_incidents[j].value]_vars

\* A finalized row where an unhinted incident became cumulative above a
\* "new"-headed one, next to a "total"-headed cumulative incident that is
\* not above it.
C2_Witness ==
    /\ RowFinalized
    /\ \E i, j, k \in RowIdx :
          /\ NewHeaded(row_incidents[j])
          /\ row_incidents[j].type = "caseCount"
          /\ NoHint(row_incidents[i])
          /\ row_incidents[i].type = "cumulativeCaseCount"
          /\ row_incidents[i].value > row_incidents[j].value
          /\ HasTotal(row_incidents[k])
          /\ row_incidents[k].type = "cumulativeCaseCount"
          /\ row_incidents[k].value <= row_incidents[j].value

\* The values of the drafts of a family that are marked incremental.
IncrementalValues(family) ==
    {row_incidents[i].value : i \in
        {j \in RowIdx : /\ row_incidents[j].aggregation = "incremental"
                        /\ row_incidents[j].base_type = family}}

IncrementalCount(family) ==
    Cardinality({j \in RowIdx : /\ row_incidents[j].aggregation = "incremental"
                                /\ row_incidents[j].base_type = family})

MaxOfFamily(family) ==
    IF family = "caseCount" THEN max_new_cases ELSE max_new_deaths

\* C3 as stated: every draft marked incremental has the greatest value
\* among the incremental drafts of its base type in the row.
C3_IncrementalEqualsMaximum ==
    DraftsBuilt =>
        \A i \in RowIdx :
            row_incidents[i].aggregation = "incremental" =>
                \A v \in IncrementalValues(row_incidents[i].base_type) :
                    row_incidents[i].value >= v

\* C3 amended: after the maximum pass, the maximum kept for a family is the
\* greatest value among its incremental drafts (-1 when it has none), so
\* every incremental draft is at most the maximum of its family, and equal
\* to it when it is the only incremental draft of the family in the row.
C3_IncrementalAtMostMaximum ==
    pc \in {"resolve", "finalize"} =>
        /\ \A family \in {"caseCount", "deathCount"} :
              IF IncrementalValues(family) = {}
              THEN MaxOfFamily(family) = -1
              ELSE /\ MaxOfFamily(family) \in IncrementalValues(family)
                   /\ \A v \in IncrementalValues(family) :
                          v <= MaxOfFamily(family)
        /\ \A i \in RowIdx :
              row_incidents[i].aggregation = "incremental" =>
                  /\ row_incidents[i].value
                         <= MaxOfFamily(row_incidents[i].base_type)
                  /\ IncrementalCount(row_incidents[i].base_type) = 1 =>
                         row_incidents[i].value
                             = MaxOfFamily(row_incidents[i].base_type)

\* Two incremental drafts of one family with different values, the smaller
\* one first, and the maximum of the family computed.
C3_Witness ==
    /\ pc = "resolve"
    /\ \E i, j \in RowIdx :
          /\ i < j
          /\ row_incidents[i].aggregation = "incremental"
          /\ row_incidents[j].aggregation = "incremental"
          /\ row_incidents[i].base_type = "caseCount"
          /\ row_incidents[j].base_type = "caseCount"
          /\ row_incidents[i].value < row_incidents[j].value
          /\ max_new_cases = row_incidents[j].value

\* C4: a draft under a header holding "total" is marked cumulative and is
\* emitted with the cumulative type of its base type, whatever the values
\* of the "new"-headed incidents of the row; a draft under a header holding
\* "new" and not "total" is marked incremental.
C4_TotalIsCumulative ==
    /\ DraftsBuilt =>
          \A i \in RowIdx :
              /\ HasTotal(row_incidents[i]) =>
                     row_incidents[i].aggregation = "cumulative"
              /\ NewHeaded(row_incidents[i]) =>
                     row_incidents[i].aggregation = "incremental"
    /\ RowFinalized =>
          \A i \in RowIdx :
              HasTotal(row_incidents[i]) =>
                  row_incidents[i].type =
                      (IF IncidentBaseType(row_incident_base_type,
                                           HeaderOf(row_incidents[i])) = "caseCount"
                       THEN "cumulativeCaseCount" ELSE "cumulativeDeathCount")

\* A finalized row with a "total"-headed cumulative incident below a
\* "new"-headed incident of the same base type.
C4_Witness ==
    /\ RowFinalized
    /\ \E i, j \in RowIdx :
          /\ HasTotal(row_incidents[i])
          /\ NewHeaded(row_incidents[j])
          /\ row_incidents[i].type = "cumulativeCaseCount"
          /\ row_incidents[j].type = "caseCount"
          /\ row_incidents[i].value < row_incidents[j].value
-----------------------------------------------------------------------------
(* Properties of the number candidates                                     *)

\* The places where a separator word stands between two white-space
\* characters of the text: <<p, q>> with the white space before the word
\* at offset p and the text after the white space behind it from offset q.
SeparatorPlaces(s) ==
    {<<p - 1, p + Len(w) + 1>> : <<p, w>> \in
        {pw \in (1..Len(s)) \X SeparatorWords :
            /\ s[pw[1]] \in Whitespace
            /\ pw[1] + Len(pw[2]) + 1 <= Len(s)
            /\ SubSeq(s, pw[1] + 1, pw[1] + Len(pw[2])) = pw[2]
            /\ s[pw[1] + Len(pw[2]) + 1] \in Whitespace}}

\* A text is a valid number: it has a value and no leading zero.
ValidText(t) ==
    /\ t # <<>>
    /\ parse_spelled_number(t) # NoNumber
    /\ ~(t[1] = "0" /\ Len(t) > 1)

\* The candidate over the offsets start..end of the document.
CandidateOver(ne_span, start, end) ==
    [start |-> start, end |-> end, label |-> "count",
     text |-> SubSeq(ne_span.text, start - ne_span.start + 1, end - ne_span.start)]

MentionScanned == ne_idx = 1 /\ Len(spacy_nes) = 1

-----------------------------------------------------------------------------
(* Properties of the table interpretation                                  *)

SecondRunDone == pc = "rows" /\ first_run # <<>>

\* C5: a second run of the interpretation on the same table and tiers
\* builds the table the first run built: the same column types and the
\* same resolved entity in every cell.
C5_TypingDeterministic ==
    SecondRunDone =>
        /\ [c \in 1..Len(tables[1].column_definitions) |->
               tables[1].column_definitions[c].type]
           = [c \in 1..Len(first_run[1].column_definitions) |->
                 first_run[1].column_definitions[c].type]
        /\ tables[1].rows = first_run[1].rows

\* Row 0 holds no span of the numbers tier.
NoNumberInRowZero ==
    \A c \in 1..Len(rows[1]) :
        \A e \in rows[1][c].entities : e.type # "number"

HeaderDetected == pc \in {"columns", "rows", "context", "drafts", "max",
                          "resolve", "finalize", "returned"}

-----------------------------------------------------------------------------
(* Properties of the import                                                *)

\* The alternate names of a row of the input, as a set.
DistinctNames(d) ==
    {r.alternatename : r \in
        {x \in BagToSet(db_file.alternatenames) : x.geonameid = d.geonameid}}

\* C8: after a completed import every imported place has one row of
\* alternatename_counts, whose count is the number of distinct rows of
\* alternatenames with the place's id, the row of its name among them.
C8_CountsDistinctRows ==
    pc = "closed" =>
        \A k \in 1..Len(geonames_csv) :
            LET d == geonames_csv[k]
                counted == {c \in db_file.alternatename_counts :
                               c.geonameid = d.geonameid}
            IN  /\ d.name \in DistinctNames(d)
                /\ counted = {[geonameid |-> d.geonameid,
                               count |-> Cardinality(DistinctNames(d))]}

\* An import of two places has completed; one of them gives the same
\* alternate name twice.
C8_Witness ==
    /\ pc = "closed"
    /\ Len(geonames_csv) = 2
    /\ \E k \in 1..2 :
          /\ geonames_csv[k].alternatenames = <<"a", ",", "a">>
          /\ [geonameid |-> geonames_csv[k].geonameid, count |-> 2]
                 \in db_file.alternatename_counts

\* C9: a build invoked while a database exists at the path returns and
\* leaves the database as it was, whether the database is complete or what
\* an interrupted run left.
C9_ExistingDatabaseUntouched ==
    [][(pc \in Stopped /\ db_file # NoDatabase) =>
          (pc' = "return" /\ db_file' = db_file /\ connection' = NoDatabase)]_vars

\* The build has returned from a database an interrupted run left: its
\* tables are there, the index and the counts are not.
C9_Witness ==
    /\ pc = "return"
    /\ db_file # NoDatabase
    /\ "geonames" \in db_file.tables
    /\ ~db_file.alternatename_index
    /\ "alternatename_counts" \notin db_file.tables

\* C10: no row of alternatenames holds the empty string as alternate name.
C10_NoEmptyAlternateName ==
    connection # NoDatabase =>
        \A r \in BagToSet(connection.alternatenames) : r.alternatename # <<>>

\* C11: in what is committed, every place row has a row of alternatenames
\* with its id and its name, and while the batches are read the committed
\* rows are those of whole batches.
C11_CommittedPlacesHaveNames ==
    db_file # NoDatabase =>
        /\ \A g \in db_file.geonames :
              \E r \in BagToSet(db_file.alternatenames) :
                  r.geonameid = g.geonameid /\ r.alternatename = g.name
        /\ db_file.ordinary_alternatenames = db_file.ordinary_geonames
        /\ pc = "batches" =>
              (db_file.ordinary_geonames + Cardinality(db_file.geonames))
                  % batch_size = 0

\* The commit of line 103 has put rows on disk while batches remain.
C11_Witness ==
    /\ pc = "batches"
    /\ db_file # NoDatabase
    /\ db_file.ordinary_geonames > 0
    /\ i_count > db_file.ordinary_geonames

\* C12: the database an interrupted import leaves has no index on
\* alternatenames.
C12_InterruptedLeavesNoIndex ==
    pc = "interrupted" => ~(db_file # NoDatabase /\ db_file.alternatename_index)

\* The text is an optional "-" and the digits `digits`.
IsInteger(t, digits) ==
    /\ digits # <<>>
    /\ \A k \in 1..Len(digits) : digits[k] \in Digits
    /\ t \in {digits, <<"-">> \o digits}

\* The text is an optional "-", the digits `whole`, a point and the digits
\* `frac`, with a digit on one side of the point at least.
IsDecimal(t, whole, frac) ==
    /\ whole \o frac # <<>>
    /\ \A k \in 1..Len(whole) : whole[k] \in Digits
    /\ \A k \in 1..Len(frac) : frac[k] \in Digits
    /\ t \in {whole \o <<".">> \o frac, <<"-">> \o whole \o <<".">> \o frac}

Pieces(t) == {SubSeq(t, a, b) : a \in 1..(Len(t) + 1), b \in 0..Len(t)}

RECURSIVE Power10(_)
Power10(n) == IF n = 0 THEN 1 ELSE 10 * Power10(n - 1)

Signed(t, n) == IF t # <<>> /\ t[1] = "-" THEN -n ELSE n

\* The parsed value is the number the text spells: an int for an integer,
\* a float for a decimal, 0 for any other text.
Spells(t, v) ==
    IF \E d \in Pieces(t) : IsInteger(t, d)
    THEN \E d \in Pieces(t) :
            /\ IsInteger(t, d)
            /\ v.type = "int"
            /\ v.value = Signed(t, DigitsValue(d, 0))
    ELSE IF \E w, f \in Pieces(t) : IsDecimal(t, w, f)
    THEN \E w, f \in Pieces(t) :
            /\ IsDecimal(t, w, f)
            /\ v.type = "float"
            /\ v.value * Power10(Len(f)) =
                  Signed(t, DigitsValue(w \o f, 0)) * Power10(v.places)
    ELSE v = IntV(0)

-----------------------------------------------------------------------------
(* Further properties of annotate                                          *)

IncidentTypes ==
    {"caseCount", "deathCount", "cumulativeCaseCount", "cumulativeDeathCount"}

\* The cells of the data rows that hold a number span.
NumberCells ==
    LET data_rows == DataRows(rows, HasHeader(rows))
    IN  {rc \in UNION {{<<r, c>> : c \in 1..Len(data_rows[r])} :
                          r \in 1..Len(data_rows)} :
            TierIn(data_rows[rc[1]][rc[2]], "number") # {}}

\* C14: whatever the lengths of the rows and whichever columns are all
\* null, annotate raises nothing, goes on until it returns, and returns no
\* more incidents than there are cells with a number, each of a known type.
C14_MalformedShape ==
    /\ pc \notin {"IndexError", "ZeroDivisionError", "TypeError"}
    /\ pc # "returned" => ENABLED NextAnnotate
    /\ pc = "returned" =>
          /\ Len(incidents) <= Cardinality(NumberCells)
          /\ \A k \in 1..Len(incidents) : incidents[k].type \in IncidentTypes

\* annotate has returned from a table whose rows differ in length and
\* whose first column is null in every row.
C14_Witness ==
    /\ pc = "returned"
    /\ Len(rows) = 2
    /\ Len(rows[1]) # Len(rows[2])
    /\ ~has_header
    /\ \A r \in 1..2 : is_null(rows[r][1].text)

\* C15: every incident of a finalized row comes from a column whose header
\* names cases or deaths.
C15_OnlyCasesAndDeathsColumns ==
    RowFinalized =>
        \A i \in RowIdx :
            \/ Contains(STR_cases, HeaderOf(row_incidents[i]))
            \/ Contains(STR_deaths, HeaderOf(row_incidents[i]))

\* The cells of the current row that zip pairs with a column of the type.
CellsOfType(type) ==
    {j \in 1..ZipLen(CurTable, CurRow) :
        CurTable.column_definitions[j].type = type /\ Truthy(CurRow[j])}

Rightmost(S) == CHOOSE j \in S : \A k \in S : k <= j

Before(a, b) ==
    \/ a[1] < b[1]
    \/ a[1] = b[1] /\ a[2] < b[2]
    \/ a[1] = b[1] /\ a[2] = b[2] /\ a[3] < b[3]

\* The non-null cells of the number columns of the document.
CountCells ==
    {trc \in UNION {UNION {{<<t, r, c>> :
                               c \in 1..ZipLen(tables[t], tables[t].rows[r])} :
                           r \in 1..Len(tables[t].rows)} :
                    t \in 1..Len(tables)} :
        /\ tables[trc[1]].column_definitions[trc[3]].type = "number"
        /\ Truthy(tables[trc[1]].rows[trc[2]][trc[3]])}

TypedCells ==
    [r \in 1..Len(DataRows(rows, has_header)) |->
        DataRows(rows, has_header)[r][1]]

ColumnTyped == pc = "rows" /\ Len(column_types) >= 1

\* A cell matches a type: it holds a span of the type; for the number type,
\* one that overlaps no date span.
CellMatches(cell, type) ==
    \E e \in cell.entities :
        /\ e.type = type
        /\ type = "number" =>
              \A d \in cell.entities : d.type = "date" => ~Overlaps(e, d)

MatchCount(type) ==
    Cardinality({r \in 1..Len(TypedCells) : CellMatches(TypedCells[r], type)})

NonNullCount ==
    Cardinality({r \in 1..Len(TypedCells) : ~is_null(TypedCells[r].text)})

\* matches / non-null cells > 0.30, the ratio being 0 without non-null cell.
EligibleType(type) ==
    NonNullCount > 0 /\ 10 * MatchCount(type) > 3 * NonNullCount

\* The column has the type that the rule of eligibility, greatest count and
\* first-met on a tie gives it.
WinnerRule ==
    /\ EligibleType(column_types[1])
    /\ \A u \in EntityTypes \ {column_types[1]} :
          EligibleType(u) =>
             \/ MatchCount(u) < MatchCount(column_types[1])
             \/ /\ MatchCount(u) = MatchCount(column_types[1])
                /\ <<column_types[1], u>> \in items_order

EmittedType(draft) ==
    IF draft.aggregation # "cumulative" THEN draft.base_type
    ELSE IF draft.base_type = "caseCount" THEN "cumulativeCaseCount"
    ELSE IF draft.base_type = "deathCount" THEN "cumulativeDeathCount"
    ELSE "other"

\* The last loop of a row turns each draft into the incident of its type.
FinalizeStep ==
    pc = "finalize" /\ pc' = "rows" =>
        /\ Len(row_incidents') = Len(row_incidents)
        /\ \A i \in 1..Len(row_incidents) :
              row_incidents'[i].type = EmittedType(row_incidents[i])

\* C19: every emitted incident has one of the four types, the cumulative
\* ones exactly for the drafts marked cumulative, and carries neither
\* base_type nor aggregation.
C19_EmittedTypes ==
    /\ [](\A i \in 1..Len(incidents) :
             /\ incidents[i].type \in IncidentTypes
             /\ "base_type" \notin DOMAIN incidents[i]
             /\ "aggregation" \notin DOMAIN incidents[i])
    /\ [][FinalizeStep]_vars

\* A row has been finalized into a plain and a cumulative incident.
C19_Witness ==
    /\ RowFinalized
    /\ \E i, j \in 1..Len(incidents) :
          /\ IsCumulativeType(incidents[i].type)
          /\ IsPlainType(incidents[j].type)

\* The fallback has run.
TokensAdded == pc = "entities"

\* A text of 1 to 7 digits without leading zero.
PlainNumber(text) ==
    /\ Len(text) \in 1..7
    /\ \A i \in 1..Len(text) : text[i] \in Digits
    /\ text[1] # "0"

\* A mention with one of the given labels shares a character with the
\* token.
Covered(token, labels) ==
    \E m \in 1..Len(spacy_nes) :
        /\ spacy_nes[m].label \in labels
        /\ spacy_nes[m].start < token.end
        /\ token.start < spacy_nes[m].end

\* The tier holds a candidate over the token.
IsCandidate(token) ==
    \E n \in 1..Len(numbers) :
        /\ numbers[n].start = token.start
        /\ numbers[n].end = token.end
        /\ numbers[n].text = token.text
        /\ numbers[n].label = "count"

\* Among the tokens that no mention of any label covers, the candidates
\* are the plain numbers.
FallbackRule ==
    \A k \in 1..Len(spacy_tokens) :
        ~Covered(spacy_tokens[k], MentionLabels) =>
            (IsCandidate(spacy_tokens[k]) <=> PlainNumber(spacy_tokens[k].text))

\* C20: after the fallback the tier holds every token of 1 to 7 digits
\* without leading zero that no mention of any label covers, and no other
\* token that no mention covers: none of 8 digits or more, none with a
\* leading zero.
C20_TokenFallback == TokensAdded => FallbackRule

\* C20 as stated: the tier holds every token of 1 to 7 digits without
\* leading zero that no number mention (QUANTITY or CARDINAL) covers.
C20_UncoveredByNumberMention ==
    TokensAdded =>
        \A k \in 1..Len(spacy_tokens) :
            (/\ PlainNumber(spacy_tokens[k].text)
             /\ ~Covered(spacy_tokens[k], {"QUANTITY", "CARDINAL"})) =>
                IsCandidate(spacy_tokens[k])

\* The fallback has added a token of 7 digits and left out a token of 8
\* digits, neither covered by a mention.
C20_Witness ==
    /\ TokensAdded
    /\ spacy_nes = <<>>
    /\ Len(spacy_tokens) = 2
    /\ Len(spacy_tokens[1].text) = 7
    /\ Len(spacy_tokens[2].text) = 8
    /\ \A i \in 1..8 : spacy_tokens[2].text[i] = "5"
    /\ Len(numbers) = 1
    /\ numbers[1].start = spacy_tokens[1].start

\* What the incidents emitted for row r of table t show: per column, the
\* type, the value and the attributes.
EmittedFor(t, r) ==
    {<<incidents[i].span[3], incidents[i].type, incidents[i].value,
       incidents[i].attributes>> :
        i \in {j \in 1..Len(incidents) :
                  incidents[j].span[1] = t /\ incidents[j].span[2] = r}}

\* C21: two tables with the same column definitions emit the same
\* incidents (types, values, attributes) for a row they have in common,
\* whatever their other rows hold; and a row without incremental draft of
\* a family has no maximum for it, whatever the rows before it held.
C21_RowIndependence ==
    /\ pc = "returned" =>
          \A t, u \in 1..Len(tables) :
              tables[t].column_definitions = tables[u].column_definitions =>
                  \A r \in 1..Len(tables[t].rows) :
                      (/\ r <= Len(tables[u].rows)
                       /\ tables[t].rows[r] = tables[u].rows[r]) =>
                          EmittedFor(t, r) = EmittedFor(u, r)
    /\ pc = "resolve" =>
          \A family \in {"caseCount", "deathCount"} :
              IncrementalValues(family) = {} => MaxOfFamily(family) = -1

\* Both tables end with the same row, whose Confirmed count 1 stands above
\* its New count 0 and is cumulative in both, while the rows before it
\* differ and that of the first table holds the New count 1.
C21_Witness ==
    /\ pc = "returned"
    /\ Len(tables) = 2
    /\ tables[1].column_definitions =
           <<HeaderColumn("number", HDR_New), HeaderColumn("number", HDR_Confirmed)>>
    /\ tables[1].rows[1] = <<SpanGroupV(<<"1">>), SpanGroupV(<<"0">>)>>
    /\ tables[1].rows[1] # tables[2].rows[1]
    /\ tables[1].rows[2] = <<SpanGroupV(<<"0">>), SpanGroupV(<<"1">>)>>
    /\ tables[2].rows[2] = tables[1].rows[2]
    /\ <<2, "cumulativeCaseCount", 1, <<STR_confirmed>>>> \in EmittedFor(1, 2)
    /\ <<2, "cumulativeCaseCount", 1, <<STR_confirmed>>>> \in EmittedFor(2, 2)

-----------------------------------------------------------------------------
(* Properties of the batcher                                               *)

\* The records of the file and of the batch yielded last.
FileLength == ordinary_rows + Len(geonames_csv)

BatchLength == batch_yielded.ordinary + Len(batch_yielded.batch)

\* The batch yielded last holds the records of the file from the one after
\* `first - 1` records on, in the order of the file.
BatchIsSlice(first) ==
    /\ batch_yielded.ordinary =
           Cardinality({k \in first..(first + BatchLength - 1) :
                           k <= ordinary_rows})
    /\ \A k \in 1..Len(batch_yielded.batch) :
          /\ first + batch_yielded.ordinary + k - 1 > ordinary_rows
          /\ batch_yielded.batch[k] =
                 read_geonames_csv[first + batch_yielded.ordinary + k - 1
                                       - ordinary_rows]

\* The batches yielded so far are the records read so far, each once and
\* in order: every batch but the last has batch_size records, the last has
\* the rest, fewer than batch_size.
BatchRule ==
    batch_yielded # NoBatch =>
        /\ BatchLength <= batch_size
        /\ BatchIsSlice(i_count - BatchLength + 1)
        /\ i_count <= FileLength
        /\ ~batch_yielded.last =>
              BatchLength = batch_size /\ i_count % batch_size = 0
        /\ batch_yielded.last =>
              i_count = FileLength /\ BatchLength = FileLength % batch_size

\* C22: the batches partition the file in order, all of 100 records but
\* the last, which holds the 0 to 99 records that are left: it is empty
\* for a file of no record or of a whole number of hundreds.
C22_BatchesPartition == BatchRule

\* C22 as stated: the batches partition the file in order and none of them
\* is empty.
C22_NoEmptyBatch ==
    /\ BatchRule
    /\ batch_yielded # NoBatch => BatchLength >= 1

\* A file of 101 records: the second batch, the last, holds the one record
\* left, a row of geonames_csv.
C22_Witness ==
    /\ FileLength = batch_size + 1
    /\ batch_yielded.last
    /\ batch_yielded.ordinary = 0
    /\ Len(batch_yielded.batch) = 1
    /\ i_count = FileLength
====
